---------------------------- MODULE Spec2Model ----------------------------
(***************************************************************************)
(* Model of dcf_app_v2.py: the valuation engine discounted_cash_flow and   *)
(* the sensitivity sweep sensitivity_analysis.                             *)
(*                                                                         *)
(* Numbers.  The program computes with floats; the model computes the same *)
(* expressions over exact rationals <<n, d>> (d > 0, lowest terms).  The   *)
(* pair <<0, 0>> stands for a non-finite float (inf or nan), which numpy   *)
(* produces where plain Python raises ZeroDivisionError.                   *)
(*                                                                         *)
(* Dictionaries are functions from their keys (strings) to values, so that *)
(* "key in d" is key \in DOMAIN d.  None is the string "None".             *)
(***************************************************************************)
EXTENDS Integers, Sequences, FiniteSets, TLC

VARIABLES
    pc,          \* position: idle, validate, retrieve, loop, finish, returned, raised,
                 \*           sweep, swept
    args,        \* arguments of the running discounted_cash_flow call
    stock,       \* what yf.Ticker(ticker) delivered to the running call / sweep
    frame,       \* locals of the running call: projected_fcfs, present_values, year, ...
    outcome,     \* how the call ended: a returned dict or a raised exception
    sweep,       \* arguments and loop position of sensitivity_analysis
    results,     \* the dict of dicts sensitivity_analysis fills
    invoked,     \* the (g1_5, g6_20) pairs the sweep called discounted_cash_flow for
    engine_out,  \* what each of those calls returned or raised
    table        \* the DataFrame sensitivity_analysis returns

vars == <<pc, args, stock, frame, outcome, sweep, results, invoked, engine_out, table>>

---------------------------------------------------------------------------
(* Bounds of the model.                                                    *)

\* number_of_years ranges over -1 .. MaxYears (the widget admits -1 .. 20)
MaxYears == 6
\* at most this many entries of the provider's data deviate from a complete record
MaxDeviations == 2
\* each swept growth-rate range holds 1 .. MaxGrid values
MaxGrid == 2

---------------------------------------------------------------------------
(* Float arithmetic, as exact rationals.                                   *)

Abs(x) == IF x < 0 THEN -x ELSE x

RECURSIVE GCD(_, _)
GCD(a, b) == IF b = 0 THEN a ELSE GCD(b, a % b)

LCM(a, b) == (a \div GCD(a, b)) * b

\* the float n / d, d # 0
Rat(n, d) ==
    LET s == IF d < 0 THEN -1 ELSE 1
        g == GCD(Abs(n), Abs(d))
    IN  <<(s * n) \div g, (s * d) \div g>>

NonFinite == <<0, 0>>
IsFinite(a) == a[2] # 0
IsZero(a) == a[2] # 0 /\ a[1] = 0

Zero == <<0, 1>>
One == <<1, 1>>

RAdd(a, b) ==
    IF ~IsFinite(a) \/ ~IsFinite(b) THEN NonFinite
    ELSE LET l == LCM(a[2], b[2])
         IN  Rat(a[1] * (l \div a[2]) + b[1] * (l \div b[2]), l)

RNeg(a) == <<-a[1], a[2]>>

RSub(a, b) == RAdd(a, RNeg(b))

RMul(a, b) ==
    IF ~IsFinite(a) \/ ~IsFinite(b) THEN NonFinite
    ELSE LET g1 == GCD(Abs(a[1]), b[2])
             g2 == GCD(Abs(b[1]), a[2])
         IN  <<(a[1] \div g1) * (b[1] \div g2), (a[2] \div g2) * (b[2] \div g1)>>

\* a / b where b is finite and not zero
RDiv(a, b) ==
    IF ~IsFinite(a) THEN NonFinite
    ELSE RMul(a, Rat(b[2], b[1]))

\* a ** k for an int k >= 0
RECURSIVE RPow(_, _)
RPow(a, k) == IF k = 0 THEN One ELSE RMul(a, RPow(a, k - 1))

RLt(a, b) == a[1] * b[2] < b[1] * a[2]
RLe(a, b) == a[1] * b[2] <= b[1] * a[2]

\* sum(seq), Python's left-to-right sum starting at 0
RECURSIVE RSum(_)
RSum(seq) ==
    IF seq = <<>> THEN Zero
    ELSE RAdd(RSum(SubSeq(seq, 1, Len(seq) - 1)), seq[Len(seq)])

---------------------------------------------------------------------------
(* Inputs.                                                                 *)

\* the ticker the text input delivers (a str, upper-cased).  Both callers pass a
\* str and floats, so the type validation of lines 56-59 passes in every call.
Tickers == {"AAPL"}

\* rates the number inputs can deliver, in and out of the validated ranges
DiscountRates == {<<-1, 2>>, <<0, 1>>, <<1, 2>>, <<1, 1>>, <<3, 2>>}
GrowthRates == {<<-3, 2>>, <<-1, 1>>, <<1, 2>>, <<2, 1>>, <<5, 2>>}
TerminalRates == {<<-3, 2>>, <<-1, 1>>, <<0, 1>>, <<1, 2>>, <<1, 1>>, <<3, 2>>}

Horizons == -1 .. MaxYears

Args ==
    [ticker : Tickers,
     number_of_years : Horizons,
     discount_rate : DiscountRates,
     growth_rate_1_5 : GrowthRates,
     growth_rate_6_20 : GrowthRates,
     terminal_growth_rate : TerminalRates,
     np_rates : {FALSE}]

\* year <= 5 uses growth_rate_1_5
NearTermYears == 5

---------------------------------------------------------------------------
(* The provider's data for the ticker (yf.Ticker): a complete record of    *)
(* the figures the engine reads, and the ways it can deviate from it.      *)

Deviations ==
    {"info_empty",        \* stock.info is None or {}
     "cashflow_empty",    \* stock.cashflow is None or empty
     "balance_empty",     \* stock.balance_sheet is None or empty
     "fcf_norow",         \* the cash flow statement has no 'Free Cash Flow' row
     "fcf_nan",           \* that row's latest entry is NaN
     "fcf_python",        \* that entry is a plain Python number, not a numpy.float64
     "marketcap_none",    \* info has no 'marketCap'
     "price_none",        \* info has no 'currentPrice'
     "no_minority_row",   \* no 'Total Liabilities Net Minority Interest' row
     "has_plain_row",     \* a 'Total Liabilities' row
     "liabilities_nan",   \* the liabilities entry read is NaN
     "cash_norow",        \* no 'Cash And Cash Equivalents' row
     "cash_nan",          \* that row's latest entry is NaN
     "shares_none"}       \* info has no 'sharesOutstanding'

FcfValues == {<<0, 1>>, <<3, 1>>, <<-3, 1>>}

\* the subsets of Deviations of at most k elements
RECURSIVE DeviationSets(_)
DeviationSets(k) ==
    IF k = 0 THEN {{}}
    ELSE LET smaller == DeviationSets(k - 1)
         IN  smaller \cup {S \cup {x} : S \in smaller, x \in Deviations}

Stocks ==
    [deviations : {S \in DeviationSets(MaxDeviations) :
                      /\ ~({"fcf_norow", "fcf_nan"} \subseteq S)
                      /\ ~({"cash_norow", "cash_nan"} \subseteq S)},
     free_cash_flow : FcfValues,
     total_liabilities : {<<5, 1>>},
     cash_and_equivalents : {<<1, 1>>},
     market_cap : {<<12, 1>>},
     current_price : {<<2, 1>>},
     shares_outstanding : {<<2, 1>>}]

NoStock ==
    [deviations |-> {"not_retrieved"}, free_cash_flow |-> Zero,
     total_liabilities |-> Zero, cash_and_equivalents |-> Zero,
     market_cap |-> Zero, current_price |-> Zero, shares_outstanding |-> Zero]

---------------------------------------------------------------------------
(* discounted_cash_flow, lines 51-159.                                     *)

NoOutcome == [kind |-> "none", exc |-> "", msg |-> "", value |-> <<>>]

Raise(exc, msg) == [kind |-> "raise", exc |-> exc, msg |-> msg, value |-> <<>>]

\* fault variant of ReturnError: the failure dict keeps a valuation field
ReturnError_Partial(msg) ==
    [kind |-> "return", exc |-> "", msg |-> "",
     value |-> [k \in {"Error Message", "Current Share Price"} |->
                  IF k = "Error Message" THEN msg ELSE Zero]]

\* return {'Error Message': msg}
ReturnError(msg) ==
    [kind |-> "return", exc |-> "", msg |-> "",
     value |-> [k \in {"Error Message"} |-> msg]]

\* fault variant of Unexpected: the handler of line 158 lets the exception through
Unexpected_Reraised(e) == Raise("Exception", e)

\* except Exception as e: return {'Error Message': f"An unexpected error occurred: {str(e)}"}
Unexpected(e) == ReturnError("An unexpected error occurred: " \o e)

\* Input Type Validation: the TypeError message, "" when the types pass
TypeError(a) ==
    IF a.ticker \notin STRING THEN "Ticker must be a string."
    ELSE IF \E rate \in {a.discount_rate, a.growth_rate_1_5, a.growth_rate_6_20,
                         a.terminal_growth_rate} : rate \notin Int \X Int
         THEN "Discount rate and growth rates must be numbers."
         ELSE ""

\* not lo <= rate <= hi
OutOfRange(minus, rate, plus) == ~(RLe(minus, rate) /\ RLe(rate, plus))

\* fault variant of ValueError: the comparison of line 70 comes first
ValueError_OrderingFirst(a) ==
    IF RLe(a.discount_rate, a.terminal_growth_rate)
    THEN "Discount rate must be greater than terminal growth rate."
    ELSE IF OutOfRange(Zero, a.discount_rate, One)
    THEN "Discount rate must be between 0 and 1."
    ELSE IF OutOfRange(<<-1, 1>>, a.growth_rate_1_5, <<2, 1>>)
    THEN "Growth rate (1-5) is outside a reasonable range (-1 to 2)."
    ELSE IF OutOfRange(<<-1, 1>>, a.growth_rate_6_20, <<2, 1>>)
    THEN "Growth rate (6-20) is outside a reasonable range (-1 to 2)."
    ELSE IF OutOfRange(<<-1, 1>>, a.terminal_growth_rate, One)
    THEN "Terminal growth rate is outside a reasonable range (-1 to 1)."
    ELSE ""

\* fault variant of ValueError: the comparison of line 70 is strict
ValueError_StrictOrdering(a) ==
    IF OutOfRange(Zero, a.discount_rate, One)
    THEN "Discount rate must be between 0 and 1."
    ELSE IF OutOfRange(<<-1, 1>>, a.growth_rate_1_5, <<2, 1>>)
    THEN "Growth rate (1-5) is outside a reasonable range (-1 to 2)."
    ELSE IF OutOfRange(<<-1, 1>>, a.growth_rate_6_20, <<2, 1>>)
    THEN "Growth rate (6-20) is outside a reasonable range (-1 to 2)."
    ELSE IF OutOfRange(<<-1, 1>>, a.terminal_growth_rate, One)
    THEN "Terminal growth rate is outside a reasonable range (-1 to 1)."
    ELSE IF RLt(a.discount_rate, a.terminal_growth_rate)
    THEN "Discount rate must be greater than terminal growth rate."
    ELSE ""

\* Input Value Validation: the ValueError message, "" when the values pass
ValueError(a) ==
    IF OutOfRange(Zero, a.discount_rate, One)
    THEN "Discount rate must be between 0 and 1."
    ELSE IF OutOfRange(<<-1, 1>>, a.growth_rate_1_5, <<2, 1>>)
    THEN "Growth rate (1-5) is outside a reasonable range (-1 to 2)."
    ELSE IF OutOfRange(<<-1, 1>>, a.growth_rate_6_20, <<2, 1>>)
    THEN "Growth rate (6-20) is outside a reasonable range (-1 to 2)."
    ELSE IF OutOfRange(<<-1, 1>>, a.terminal_growth_rate, One)
    THEN "Terminal growth rate is outside a reasonable range (-1 to 1)."
    ELSE IF RLe(a.discount_rate, a.terminal_growth_rate)
    THEN "Discount rate must be greater than terminal growth rate."
    ELSE ""

\* where a call that ended as o leaves its caller
EndPc(o) == IF o.kind = "raise" THEN "raised" ELSE "returned"

\* lines 55-71: the exception the validation raises, NoOutcome when it passes
Validation(a) ==
    IF TypeError(a) # "" THEN Raise("TypeError", TypeError(a))
    ELSE IF ValueError(a) # "" THEN Raise("ValueError", ValueError(a))
    ELSE NoOutcome

\* the locals of a call before line 76
NoFrame ==
    [free_cash_flow |-> Zero, np_fcf |-> FALSE, market_cap |-> Zero,
     current_price |-> Zero, net_debt |-> Zero, shares_outstanding |-> Zero,
     projected_fcfs |-> <<>>, present_values |-> <<>>, year |-> 0,
     loop_entered |-> FALSE, terminal_value |-> "unset"]

\* lines 76-112: the dict returned early, NoOutcome when every figure is there
RetrievalOutcome(a, s) ==
    LET d == s.deviations IN
    IF "info_empty" \in d THEN ReturnError("Invalid ticker symbol: " \o a.ticker)
    ELSE IF "cashflow_empty" \in d THEN ReturnError("Cash flow statement data unavailable.")
    ELSE IF "balance_empty" \in d THEN ReturnError("Balance sheet data unavailable.")
    ELSE IF "fcf_norow" \in d THEN Unexpected("'Free Cash Flow'")
    ELSE IF "fcf_nan" \in d THEN ReturnError("Free Cash Flow data unavailable.")
    ELSE IF "marketcap_none" \in d THEN ReturnError("Market capitalization data unavailable.")
    ELSE IF "price_none" \in d THEN ReturnError("Current price data unavailable.")
    ELSE IF "no_minority_row" \in d /\ "has_plain_row" \notin d
    THEN Unexpected("'Total Liabilities'")
    ELSE IF "cash_norow" \in d THEN Unexpected("'Cash And Cash Equivalents'")
    ELSE IF "liabilities_nan" \in d \/ "cash_nan" \in d
    THEN ReturnError("Net Debt data unavailable")
    ELSE IF "shares_none" \in d THEN ReturnError("Shares outstanding unavailable.")
    ELSE NoOutcome

\* lines 92-117: the locals once every figure is read
RetrievedFrame(a, s) ==
    [free_cash_flow |-> s.free_cash_flow,
     np_fcf |-> "fcf_python" \notin s.deviations,
     market_cap |-> s.market_cap,
     current_price |-> s.current_price,
     net_debt |-> RSub(s.total_liabilities, s.cash_and_equivalents),
     shares_outstanding |-> s.shares_outstanding,
     projected_fcfs |-> <<>>, present_values |-> <<>>, year |-> 1,
     loop_entered |-> FALSE, terminal_value |-> "unset"]

\* lines 120-123
GrowthRate(a, year) ==
    IF year <= NearTermYears THEN a.growth_rate_1_5 ELSE a.growth_rate_6_20

\* fault variant of ProjectedFcf: each year compounds the year before
ProjectedFcf_Chained(a, f, year) ==
    IF year = 1 THEN RMul(f.free_cash_flow, RAdd(One, GrowthRate(a, year)))
    ELSE RMul(f.projected_fcfs[year - 1], RAdd(One, GrowthRate(a, year)))

\* line 124
ProjectedFcf(a, f, year) ==
    RMul(f.free_cash_flow, RPow(RAdd(One, GrowthRate(a, year)), year))

\* line 126
PresentValue(a, projected_fcf, year) ==
    RDiv(projected_fcf, RPow(RAdd(One, a.discount_rate), year))

\* lines 119-127: one iteration of the loop
LoopBody(a, f) ==
    LET projected_fcf == ProjectedFcf(a, f, f.year) IN
    [f EXCEPT !.projected_fcfs = Append(@, projected_fcf),
              !.present_values = Append(@, PresentValue(a, projected_fcf, f.year)),
              !.year = @ + 1,
              !.loop_entered = TRUE]

\* a / b as the operands' types compute it: numpy gives inf or nan for b = 0,
\* plain Python raises ZeroDivisionError (the value "raise")
Divide(a, b, numpy) ==
    IF IsFinite(b) /\ ~IsZero(b) THEN RDiv(a, b)
    ELSE IF ~IsFinite(b) THEN NonFinite
    ELSE IF numpy THEN NonFinite
    ELSE "raise"

ResultKeys ==
    {"Intrinsic Value per Share", "Current Share Price", "Upside/Downside",
     "Free Cash Flow", "Market Cap", "Net Debt", "Projected FCFs", "Present Values",
     "Terminal Value", "Implied Growth Rate", "Present Value of Terminal Value",
     "Enterprise Value", "Equity Value", "Shares Outstanding", "Price to FCF (YoY)",
     "Error Message"}

\* lines 139-156: the dict of a completed valuation
ResultDict(v) ==
    [kind |-> "return", exc |-> "", msg |-> "",
     value |-> [k \in ResultKeys |-> IF k = "Error Message" THEN "None" ELSE v[k]]]

\* lines 129-159: from the end of the loop to the return
Finish(a, f) ==
    IF f.projected_fcfs = <<>>
    THEN \* projected_fcfs[-1] raises IndexError, caught at line 158
         [frame |-> f, outcome |-> Unexpected("list index out of range")]
    ELSE
    LET numpy == f.np_fcf \/ a.np_rates
        last == f.projected_fcfs[Len(f.projected_fcfs)]
        terminal_value ==
            Divide(RMul(last, RAdd(One, a.terminal_growth_rate)),
                   RSub(a.discount_rate, a.terminal_growth_rate), numpy)
        present_value_terminal_value ==
            Divide(terminal_value, RPow(RAdd(One, a.discount_rate), a.number_of_years),
                   numpy)
        enterprise_value == RAdd(RSum(f.present_values), present_value_terminal_value)
        equity_value == RSub(enterprise_value, f.net_debt)
        intrinsic_value_per_share == Divide(equity_value, f.shares_outstanding, numpy)
        upside_downside ==
            Divide(RSub(intrinsic_value_per_share, f.current_price), f.current_price,
                   numpy)
        ratio == Divide(f.free_cash_flow, terminal_value, numpy)
        implied_growth_rate ==
            Divide(RSub(a.discount_rate, ratio), RAdd(One, ratio), numpy)
        price_to_fcf == Divide(f.market_cap, f.free_cash_flow, f.np_fcf)
        g == IF terminal_value = "raise" THEN f
             ELSE [f EXCEPT !.terminal_value = terminal_value]
    IN  IF \/ terminal_value = "raise"
           \/ present_value_terminal_value = "raise"
           \/ intrinsic_value_per_share = "raise"
           \/ upside_downside = "raise"
           \/ ratio = "raise"
           \/ implied_growth_rate = "raise"
           \/ price_to_fcf = "raise"
        THEN \* ZeroDivisionError, caught at line 158
             [frame |-> g, outcome |-> Unexpected("float division by zero")]
        ELSE [frame |-> g,
              outcome |-> ResultDict(
                  [k \in ResultKeys \ {"Error Message"} |->
                     CASE k = "Intrinsic Value per Share" -> intrinsic_value_per_share
                       [] k = "Current Share Price" -> f.current_price
                       [] k = "Upside/Downside" -> upside_downside
                       [] k = "Free Cash Flow" -> f.free_cash_flow
                       [] k = "Market Cap" -> f.market_cap
                       [] k = "Net Debt" -> f.net_debt
                       [] k = "Projected FCFs" -> f.projected_fcfs
                       [] k = "Present Values" -> f.present_values
                       [] k = "Terminal Value" -> terminal_value
                       [] k = "Implied Growth Rate" -> implied_growth_rate
                       [] k = "Present Value of Terminal Value" ->
                              present_value_terminal_value
                       [] k = "Enterprise Value" -> enterprise_value
                       [] k = "Equity Value" -> equity_value
                       [] k = "Shares Outstanding" -> f.shares_outstanding
                       [] k = "Price to FCF (YoY)" -> price_to_fcf])]

\* line 119: for year in range(1, number_of_years+1), run to its end
RECURSIVE RunLoop(_, _)
RunLoop(a, f) ==
    IF f.year <= a.number_of_years THEN RunLoop(a, LoopBody(a, f)) ELSE f

\* one whole call of discounted_cash_flow on the data s the provider delivers
Engine(a, s) ==
    IF Validation(a).kind # "none" THEN Validation(a)
    ELSE IF RetrievalOutcome(a, s).kind # "none" THEN RetrievalOutcome(a, s)
    ELSE Finish(a, RunLoop(a, RetrievedFrame(a, s))).outcome

---------------------------------------------------------------------------
(* sensitivity_analysis, lines 163-195.                                    *)

\* pd.isna: the DataFrame's marker of a cell with no number (NaN or None)
NA == "NaN"

\* np.arange(min, max + step, step): ascending, without repeats
RECURSIVE Ascending(_)
Ascending(seq) ==
    \/ Len(seq) <= 1
    \/ RLt(seq[1], seq[2]) /\ Ascending(Tail(seq))

GridValues == {<<1, 2>>, <<2, 1>>, <<5, 2>>}

Ranges ==
    {seq \in UNION {[1 .. n -> GridValues] : n \in 1 .. MaxGrid} : Ascending(seq)}

\* the calls of line 289 follow a call of line 228 that raised nothing, with the
\* same discount_rate and terminal_growth_rate
SweepArgs ==
    {s \in [ticker : Tickers,
            number_of_years : Horizons,
            discount_rate : DiscountRates,
            terminal_growth_rate : TerminalRates,
            growth_rate_1_5_range : Ranges,
            growth_rate_6_20_range : Ranges,
            i : {1}, j : {0}] :
        /\ ~OutOfRange(Zero, s.discount_rate, One)
        /\ ~OutOfRange(<<-1, 1>>, s.terminal_growth_rate, One)
        /\ ~RLe(s.discount_rate, s.terminal_growth_rate)}

NoSweep ==
    [ticker |-> "", number_of_years |-> 0, discount_rate |-> Zero,
     terminal_growth_rate |-> Zero, growth_rate_1_5_range |-> <<>>,
     growth_rate_6_20_range |-> <<>>, i |-> 0, j |-> 0]

\* what the provider may deliver to a call of the sweep (every call of line 175
\* retrieves anew): a complete record, or one whose free cash flow is a plain 0
SweepStocks ==
    {s \in Stocks :
        \/ s.deviations = {} /\ s.free_cash_flow = <<3, 1>>
        \/ s.deviations = {"fcf_python"} /\ s.free_cash_flow = Zero}

\* fault variant of Caught: the handlers miss ValueError
Caught_TypeErrorOnly(exc) == exc = "TypeError"

\* lines 180-183: except ValueError, except Exception
Caught(exc) == exc = "ValueError" \/ exc \in {"TypeError", "KeyError", "Exception"}

\* line 175: the arguments of the call for the cell (g1_5, g6_20)
CellArgs(sw, g1_5, g6_20) ==
    [ticker |-> sw.ticker,
     number_of_years |-> sw.number_of_years,
     discount_rate |-> sw.discount_rate,
     growth_rate_1_5 |-> g1_5,
     growth_rate_6_20 |-> g6_20,
     terminal_growth_rate |-> sw.terminal_growth_rate,
     np_rates |-> TRUE]

\* lines 176-183: what is stored for a call that ended as o.  (Lines 186-193
\* belong to the except Exception handler, which only a TypeError of lines
\* 56-59 could enter: no call of the sweep raises one.)
CellValue(o) ==
    IF o.kind = "raise" THEN "None"
    ELSE IF o.value # <<>> /\ "Intrinsic Value per Share" \in DOMAIN o.value
         THEN o.value["Intrinsic Value per Share"]
         ELSE "None"

\* d[k1][k2] = v
Store(d, k1, k2, v) == [d EXCEPT ![k1] = (k2 :> v) @@ @]

\* line 195: pd.DataFrame(results): outer keys are the columns, the inner keys of
\* all columns the index, a cell without a number NA
DataFrame(d) ==
    LET columns == DOMAIN d
        index == UNION {DOMAIN d[c] : c \in columns}
    IN  [c \in columns |->
           [r \in index |->
              IF r \in DOMAIN d[c] /\ d[c][r] # "None" THEN d[c][r] ELSE NA]]

NoTable == <<>>

---------------------------------------------------------------------------
(* The state machine.                                                      *)

Init ==
    /\ pc = "idle"
    /\ args = [ticker |-> "", number_of_years |-> 0, discount_rate |-> Zero,
               growth_rate_1_5 |-> Zero, growth_rate_6_20 |-> Zero,
               terminal_growth_rate |-> Zero, np_rates |-> FALSE]
    /\ stock = NoStock
    /\ frame = NoFrame
    /\ outcome = NoOutcome
    /\ sweep = NoSweep
    /\ results = <<>>
    /\ invoked = {}
    /\ engine_out = <<>>
    /\ table = NoTable

\* line 228: the button calls discounted_cash_flow
Call ==
    /\ pc = "idle"
    /\ \E a \in Args : args' = a
    /\ pc' = "validate"
    /\ UNCHANGED <<stock, frame, outcome, sweep, results, invoked, engine_out, table>>

\* lines 55-71
Validate ==
    /\ pc = "validate"
    /\ outcome' = Validation(args)
    /\ pc' = IF Validation(args).kind = "none" THEN "retrieve" ELSE EndPc(Validation(args))
    /\ UNCHANGED <<args, stock, frame, sweep, results, invoked, engine_out, table>>

\* lines 76-117
Retrieve ==
    /\ pc = "retrieve"
    /\ \E s \in Stocks :
          /\ stock' = s
          /\ outcome' = RetrievalOutcome(args, s)
          /\ IF RetrievalOutcome(args, s).kind = "none"
             THEN frame' = RetrievedFrame(args, s) /\ pc' = "loop"
             ELSE frame' = frame /\ pc' = EndPc(RetrievalOutcome(args, s))
    /\ UNCHANGED <<args, sweep, results, invoked, engine_out, table>>

\* fault variant of Project: the loop body runs before the range is tested
Project_AtLeastOnce ==
    /\ pc = "loop"
    /\ frame.year <= args.number_of_years \/ ~frame.loop_entered
    /\ frame' = LoopBody(args, frame)
    /\ UNCHANGED <<pc, args, stock, outcome, sweep, results, invoked, engine_out, table>>

\* lines 119-127
Project ==
    /\ pc = "loop"
    /\ frame.year <= args.number_of_years
    /\ frame' = LoopBody(args, frame)
    /\ UNCHANGED <<pc, args, stock, outcome, sweep, results, invoked, engine_out, table>>

\* lines 129-159
Return ==
    /\ pc = "loop"
    /\ frame.year > args.number_of_years
    /\ frame' = Finish(args, frame).frame
    /\ outcome' = Finish(args, frame).outcome
    /\ pc' = EndPc(Finish(args, frame).outcome)
    /\ UNCHANGED <<args, stock, sweep, results, invoked, engine_out, table>>

\* line 289: the button calls sensitivity_analysis; line 167
SweepCall ==
    /\ pc = "idle"
    /\ \E s \in SweepArgs : sweep' = s
    /\ results' = <<>>
    /\ pc' = "sweep"
    /\ UNCHANGED <<args, stock, frame, outcome, invoked, engine_out, table>>

\* lines 168-169: the next g1_5, results[g1_5] = {}
SweepRow ==
    /\ pc = "sweep"
    /\ sweep.i <= Len(sweep.growth_rate_1_5_range)
    /\ sweep.j = 0
    /\ results' = (sweep.growth_rate_1_5_range[sweep.i] :> <<>>) @@ results
    /\ sweep' = [sweep EXCEPT !.j = 1]
    /\ UNCHANGED <<pc, args, stock, frame, outcome, invoked, engine_out, table>>

\* the loop position after the cell (i, j)
Advance(sw) ==
    IF sw.j < Len(sw.growth_rate_6_20_range)
    THEN [sw EXCEPT !.j = @ + 1]
    ELSE [sw EXCEPT !.i = @ + 1, !.j = 0]

\* lines 170-173: a cell with g1_5 < g6_20
SweepExcluded ==
    /\ pc = "sweep"
    /\ sweep.i <= Len(sweep.growth_rate_1_5_range)
    /\ sweep.j >= 1
    /\ RLt(sweep.growth_rate_1_5_range[sweep.i], sweep.growth_rate_6_20_range[sweep.j])
    /\ sweep' = Advance(sweep)
    /\ UNCHANGED <<pc, args, stock, frame, outcome, results, invoked, engine_out, table>>

\* lines 170-183: a cell with g1_5 >= g6_20
SweepCell ==
    /\ pc = "sweep"
    /\ sweep.i <= Len(sweep.growth_rate_1_5_range)
    /\ sweep.j >= 1
    /\ \E s \in SweepStocks :
         LET g1_5 == sweep.growth_rate_1_5_range[sweep.i]
             g6_20 == sweep.growth_rate_6_20_range[sweep.j]
             dcf_result == Engine(CellArgs(sweep, g1_5, g6_20), s)
         IN  /\ ~RLt(g1_5, g6_20)
             /\ invoked' = invoked \cup {<<g1_5, g6_20>>}
             /\ engine_out' = (<<g1_5, g6_20>> :> dcf_result) @@ engine_out
             /\ IF dcf_result.kind = "raise" /\ ~Caught(dcf_result.exc)
                THEN \* the exception leaves sensitivity_analysis
                     /\ pc' = "raised"
                     /\ outcome' = dcf_result
                     /\ UNCHANGED <<results, sweep>>
                ELSE /\ results' = Store(results, g1_5, g6_20, CellValue(dcf_result))
                     /\ sweep' = Advance(sweep)
                     /\ UNCHANGED <<pc, outcome>>
    /\ UNCHANGED <<args, stock, frame, table>>

\* line 195
SweepReturn ==
    /\ pc = "sweep"
    /\ sweep.i > Len(sweep.growth_rate_1_5_range)
    /\ table' = DataFrame(results)
    /\ pc' = "swept"
    /\ UNCHANGED <<args, stock, frame, outcome, sweep, results, invoked, engine_out>>

Next ==
    \/ Call
    \/ Validate
    \/ Retrieve
    \/ Project
    \/ Return
    \/ SweepCall
    \/ SweepRow
    \/ SweepExcluded
    \/ SweepCell
    \/ SweepReturn

Spec == Init /\ [][Next]_vars

---------------------------------------------------------------------------
(* Properties.  Their vocabulary is stated here on its own, from the       *)
(* ranges and names the specification gives, not through the operators     *)
(* above.                                                                  *)

\* lo <= r <= hi over rationals
Within(lo, r, hi) == lo[1] * r[2] <= r[1] * lo[2] /\ r[1] * hi[2] <= hi[1] * r[2]

\* the validation errors of the rates of a that lie outside their ranges
RangeErrors(a) ==
    {m \in {"Discount rate must be between 0 and 1.",
            "Growth rate (1-5) is outside a reasonable range (-1 to 2).",
            "Growth rate (6-20) is outside a reasonable range (-1 to 2).",
            "Terminal growth rate is outside a reasonable range (-1 to 1)."} :
        \/ /\ m = "Discount rate must be between 0 and 1."
           /\ ~Within(<<0, 1>>, a.discount_rate, <<1, 1>>)
        \/ /\ m = "Growth rate (1-5) is outside a reasonable range (-1 to 2)."
           /\ ~Within(<<-1, 1>>, a.growth_rate_1_5, <<2, 1>>)
        \/ /\ m = "Growth rate (6-20) is outside a reasonable range (-1 to 2)."
           /\ ~Within(<<-1, 1>>, a.growth_rate_6_20, <<2, 1>>)
        \/ /\ m = "Terminal growth rate is outside a reasonable range (-1 to 1)."
           /\ ~Within(<<-1, 1>>, a.terminal_growth_rate, <<1, 1>>)}

OrderingError == "Discount rate must be greater than terminal growth rate."

\* discount_rate <= terminal_growth_rate
NotAbove(a) ==
    a.discount_rate[1] * a.terminal_growth_rate[2]
        <= a.terminal_growth_rate[1] * a.discount_rate[2]

RatesValid(a) == RangeErrors(a) = {} /\ ~NotAbove(a)

\* the button's call of discounted_cash_flow has been made / has passed line 71
Called == args.ticker \in Tickers
Validated == Called /\ pc # "validate"

\* nothing of lines 76-159 has run
Untouched == stock = NoStock /\ frame = NoFrame

ValuationFields ==
    {"Intrinsic Value per Share", "Current Share Price", "Upside/Downside",
     "Projected FCFs", "Present Values", "Terminal Value",
     "Present Value of Terminal Value", "Enterprise Value", "Equity Value",
     "Implied Growth Rate", "Price to FCF (YoY)"}

\* a returned dict that is a complete result / a failure with a named reason
IsComplete(v) ==
    /\ ValuationFields \subseteq DOMAIN v
    /\ "Error Message" \in DOMAIN v
    /\ v["Error Message"] = "None"
IsFailure(v) ==
    /\ DOMAIN v \cap ValuationFields = {}
    /\ "Error Message" \in DOMAIN v
    /\ v["Error Message"] \notin {"None", ""}

\* the failure of the catch-all handler
IsUnexpected(v) ==
    /\ IsFailure(v)
    /\ v["Error Message"] \in
         {"An unexpected error occurred: list index out of range",
          "An unexpected error occurred: float division by zero",
          "An unexpected error occurred: 'Free Cash Flow'",
          "An unexpected error occurred: 'Total Liabilities'",
          "An unexpected error occurred: 'Cash And Cash Equivalents'"}

RequiredFacts ==
    {"free_cash_flow", "total_liabilities", "cash_and_equivalents",
     "shares_outstanding", "market_cap", "current_price"}

\* the required facts the data s lacks
Absent(s) ==
    LET d == s.deviations IN
    {f \in RequiredFacts :
        \/ f = "free_cash_flow" /\ d \cap {"fcf_norow", "fcf_nan"} # {}
        \/ f = "total_liabilities" /\
              ("liabilities_nan" \in d \/ ("no_minority_row" \in d /\ "has_plain_row" \notin d))
        \/ f = "cash_and_equivalents" /\ d \cap {"cash_norow", "cash_nan"} # {}
        \/ f = "shares_outstanding" /\ "shares_none" \in d
        \/ f = "market_cap" /\ "marketcap_none" \in d
        \/ f = "current_price" /\ "price_none" \in d}

\* the provider answered with all three statements
Delivered(s) ==
    /\ s # NoStock
    /\ s.deviations \cap {"info_empty", "cashflow_empty", "balance_empty"} = {}

\* C1: whenever a rate of the call is outside its range, the call ends by raising
\* the validation error of one of the out-of-range rates, and neither the data
\* retrieval nor the projection has run; the same holds of the calls of the sweep.
C1_ValidationCompleteness ==
    /\ (Called /\ RangeErrors(args) # {}) =>
          /\ pc \in {"validate", "raised"}
          /\ Untouched
          /\ pc = "raised" =>
                /\ outcome.kind = "raise"
                /\ outcome.exc = "ValueError"
                /\ outcome.msg \in RangeErrors(args)
    /\ \A p \in DOMAIN engine_out :
          RangeErrors(CellArgs(sweep, p[1], p[2])) # {} =>
             /\ engine_out[p].kind = "raise"
             /\ engine_out[p].exc = "ValueError"
             /\ engine_out[p].msg \in RangeErrors(CellArgs(sweep, p[1], p[2]))

\* a call with two rates out of range and discount_rate <= terminal_growth_rate
\* has raised
C1_Witness ==
    /\ pc = "raised"
    /\ Cardinality(RangeErrors(args)) >= 2
    /\ NotAbove(args)

\* C2 as stated: every call with discount_rate <= terminal_growth_rate ends with
\* the discount-must-exceed-terminal-growth error, whatever the other inputs.
C2_OrderingRegardless ==
    (Validated /\ NotAbove(args)) =>
        /\ pc = "raised"
        /\ outcome.msg = OrderingError

\* C2: every call whose four rates are in range and whose discount_rate is <=
\* terminal_growth_rate ends by raising the discount-must-exceed-terminal-growth
\* error, whatever the horizon, before any data is retrieved.
C2_OrderingWhenInRange ==
    (Validated /\ NotAbove(args) /\ RangeErrors(args) = {}) =>
        /\ pc = "raised"
        /\ outcome.kind = "raise"
        /\ outcome.exc = "ValueError"
        /\ outcome.msg = OrderingError
        /\ Untouched

\* a call with discount_rate = terminal_growth_rate and a horizon of -1 has raised
\* the ordering error
C2_Witness ==
    /\ pc = "raised"
    /\ outcome.msg = OrderingError
    /\ args.discount_rate = args.terminal_growth_rate
    /\ args.number_of_years = -1

\* the pairs of the Cartesian product of the sweep's ranges
Product ==
    {<<sweep.growth_rate_1_5_range[i], sweep.growth_rate_6_20_range[j]>> :
        i \in 1 .. Len(sweep.growth_rate_1_5_range),
        j \in 1 .. Len(sweep.growth_rate_6_20_range)}

Below(p) == p[1][1] * p[2][2] < p[2][1] * p[1][2]

HasEntry(t, p) == p[1] \in DOMAIN t /\ p[2] \in DOMAIN t[p[1]]

\* C3: once the sweep has returned, every pair (g1, g2) of the product with
\* g1 < g2 has an entry in the table, the entry is the excluded sentinel "-",
\* and the engine was not called for the pair.
C3_ExcludedCells ==
    pc = "swept" =>
        \A p \in Product :
            Below(p) =>
                /\ HasEntry(table, p)
                /\ table[p[1]][p[2]] = "-"
                /\ p \notin invoked

\* what a cell holds for a call that ended as o: its intrinsic value per share,
\* or the failed sentinel
Succeeded(o) == o.kind = "return" /\ IsComplete(o.value)

\* C4: no exception leaves the sweep; the cell of every call that failed holds
\* the failed sentinel, and once the sweep has returned every pair of the
\* product that is not excluded has been evaluated and its cell holds the
\* intrinsic value per share its call returned.
C4_GridIsolation ==
    sweep # NoSweep =>
        /\ pc \in {"sweep", "swept"}
        /\ \A p \in DOMAIN engine_out :
              /\ HasEntry(results, p)
              /\ results[p[1]][p[2]] =
                    IF Succeeded(engine_out[p])
                    THEN engine_out[p].value["Intrinsic Value per Share"]
                    ELSE "None"
        /\ pc = "swept" =>
              \A p \in Product :
                  ~Below(p) =>
                      /\ p \in DOMAIN engine_out
                      /\ HasEntry(table, p)
                      /\ table[p[1]][p[2]] =
                            IF Succeeded(engine_out[p])
                            THEN engine_out[p].value["Intrinsic Value per Share"]
                            ELSE NA

\* a sweep has returned in which one call raised, one call returned a failure and
\* a later call succeeded
C4_Witness ==
    /\ pc = "swept"
    /\ \E p, q, r \in DOMAIN engine_out :
          /\ engine_out[p].kind = "raise"
          /\ engine_out[q].kind = "return" /\ IsFailure(engine_out[q].value)
          /\ Succeeded(engine_out[r])
          /\ table[r[1]][r[2]] = engine_out[r].value["Intrinsic Value per Share"]
          /\ table[p[1]][p[2]] = NA

ClaimedGrowth(y) == IF y <= 5 THEN args.growth_rate_1_5 ELSE args.growth_rate_6_20

\* free_cash_flow * (1 + g_y)^y, from the base figure
ClaimedFcf(y) ==
    LET g == ClaimedGrowth(y)
        b == stock.free_cash_flow
    IN  Rat(b[1] * (g[1] + g[2]) ^ y, b[2] * g[2] ^ y)

\* that projection divided by (1 + discount_rate)^y
ClaimedPv(y) ==
    LET d == args.discount_rate
        x == ClaimedFcf(y)
    IN  Rat(x[1] * d[2] ^ y, x[2] * (d[1] + d[2]) ^ y)

\* C6: a call that returns a complete result for a horizon N >= 1 returns N
\* projected cash flows and N present values, the y-th being
\* free_cash_flow * (1 + g_y)^y and that value / (1 + discount_rate)^y.
C6_ProjectionCorrect ==
    (pc = "returned" /\ IsComplete(outcome.value) /\ args.number_of_years >= 1) =>
        LET N == args.number_of_years
            fcfs == outcome.value["Projected FCFs"]
            pvs == outcome.value["Present Values"]
        IN  /\ Len(fcfs) = N
            /\ Len(pvs) = N
            /\ \A y \in 1 .. N : fcfs[y] = ClaimedFcf(y) /\ pvs[y] = ClaimedPv(y)

\* a complete result over six years whose two growth rates differ
C6_Witness ==
    /\ pc = "returned"
    /\ IsComplete(outcome.value)
    /\ args.number_of_years = 6
    /\ args.growth_rate_1_5 # args.growth_rate_6_20
    /\ args.growth_rate_6_20 # <<-1, 1>>
    /\ stock.free_cash_flow # Zero
    /\ outcome.value["Projected FCFs"][6] # Zero

\* every row the engine looks up is in its statement: a fact can then be absent
\* only as a NaN entry or a None, the absence lines 93-111 test for
RowsPresent(s) ==
    /\ s.deviations \cap {"fcf_norow", "cash_norow"} = {}
    /\ "no_minority_row" \in s.deviations => "has_plain_row" \in s.deviations

\* exactly one required fact of s is absent
OneAbsent(s) == Delivered(s) /\ RowsPresent(s) /\ Cardinality(Absent(s)) = 1

\* C7: with valid rates and exactly one required fact absent, the call returns a
\* failure that is not the catch-all failure and that differs from the failure
\* returned when any other single fact is absent.
C7_MissingDataNamed ==
    (pc = "returned" /\ OneAbsent(stock)) =>
        /\ IsFailure(outcome.value)
        /\ ~IsUnexpected(outcome.value)
        /\ \A s \in Stocks :
              (OneAbsent(s) /\ Absent(s) # Absent(stock))
                  => RetrievalOutcome(args, s).value # outcome.value

\* C8: with valid rates, all facts present, a horizon >= 1 and free_cash_flow = 0
\* (so that terminal_value = 0), the call returns a failure that is not the
\* catch-all failure; it does not return a result carrying inf or nan.
C8_DegenerateReported ==
    (/\ pc = "returned"
     /\ Delivered(stock)
     /\ Absent(stock) = {}
     /\ args.number_of_years >= 1
     /\ stock.free_cash_flow = Zero) =>
        /\ IsFailure(outcome.value)
        /\ ~IsUnexpected(outcome.value)

\* C9: every dict a call returns, to the button or to the sweep, is a complete
\* result with an empty error marker or a failure with a named reason and no
\* valuation field.
C9_CompleteOrFailed ==
    /\ outcome.kind = "return" => IsComplete(outcome.value) \/ IsFailure(outcome.value)
    /\ \A p \in DOMAIN engine_out :
          engine_out[p].kind = "return" =>
              IsComplete(engine_out[p].value) \/ IsFailure(engine_out[p].value)

\* a call has returned a failure after every figure but the share count was read
C9_Witness ==
    /\ pc = "returned"
    /\ stock.deviations = {"shares_none"}
    /\ IsFailure(outcome.value)

\* C10: with valid rates, complete facts and a horizon <= 0 the loop body never
\* runs, no terminal value is computed and the call returns a failure.
C10_NonPositiveHorizon ==
    (/\ Called
     /\ RatesValid(args)
     /\ args.number_of_years <= 0
     /\ Delivered(stock)
     /\ Absent(stock) = {}) =>
        /\ ~frame.loop_entered
        /\ frame.projected_fcfs = <<>>
        /\ frame.present_values = <<>>
        /\ frame.terminal_value = "unset"
        /\ pc \in {"loop", "returned"}
        /\ pc = "returned" => outcome.kind = "return" /\ IsFailure(outcome.value)

\* a call with a horizon of 0 and complete facts has returned
C10_Witness ==
    /\ pc = "returned"
    /\ RatesValid(args)
    /\ args.number_of_years = 0
    /\ Delivered(stock)
    /\ Absent(stock) = {}
    /\ IsUnexpected(outcome.value)

=============================================================================
